---- MODULE Spec2Model ----
(***************************************************************************)
(* Model of the Arduino line-command input of POCS:                        *)
(*   resources/arduino_files/shared/CharBuffer.h           (CharBuffer)    *)
(*   resources/arduino_files/shared/serial_input_handler.h (SerialInput-   *)
(*                                                          Handler)       *)
(* and of its count-down timer:                                            *)
(*   resources/arduino_files/shared/interval_timer.cpp     (IntervalTimer) *)
(* Characters are their ASCII codes.  A buffer object is the record        *)
(* [buf_, write_cursor_, read_cursor_]; the methods of CharBuffer are      *)
(* operators from a buffer to the buffer they leave and what they return.  *)
(***************************************************************************)
EXTENDS Integers, Sequences, FiniteSets, TLC

VARIABLES
  kBufferSize,          \* template parameter of the instantiation
  buf,                  \* CharBuffer::buf_, indexed 0..kBufferSize-1
  write_cursor,         \* CharBuffer::write_cursor_
  read_cursor,          \* CharBuffer::read_cursor_
  has_line,             \* SerialInputHandler::has_line_
  wait_for_new_line,    \* SerialInputHandler::wait_for_new_line_
  pc,                   \* where the control flow of the sketch is
  avail,                \* Serial.available(): bytes received, not yet read
  out,                  \* calls made by the latest pass of Handle's loop body
  ret,                  \* what the latest direct call of a CharBuffer method returned
  g_line,               \* history: the printable non-blank bytes of the current line, while it is "ok"
  g_status,             \* history: "ok", or why the current line is lost: "over" (too long), "bad" (a bad byte)
  g_ready,              \* history: a terminator has ended a line that fits and is not garbled
  g_done,               \* history: the line whose outcome `out` holds
  g_prev,               \* history: how the line before the current one ended
  g_blank,              \* history: a blank was read after the current line had begun
  g_nl,                 \* history: the byte read last was a terminator, read with nothing of a line stored
  last_time,            \* IntervalTimer::last_time_
  remaining,            \* IntervalTimer::remaining_
  interval,             \* IntervalTimer::interval_
  g_left                \* history: the time really left of the timer's interval at its latest poll

vars == <<kBufferSize, buf, write_cursor, read_cursor, has_line, wait_for_new_line,
          pc, avail, out, ret, g_line, g_status, g_ready, g_done, g_prev, g_blank, g_nl,
          last_time, remaining, interval, g_left>>

\* the IntervalTimer object and its history
timer == <<last_time, remaining, interval, g_left>>

prog == <<buf, write_cursor, read_cursor, has_line, wait_for_new_line>>

(***************************************************************************)
(* Bounds of the model.                                                    *)
(***************************************************************************)
\* kBufferSize of the handler fed from the serial port (Spec)
StreamN == 4
\* most bytes waiting in the serial receive queue
MaxAvail == 1
\* kBufferSize of the CharBuffer whose methods are called one by one (SpecBuf)
BufN == 4
\* longest line over LineChars handed to Handle (SpecBuf)
LineN == 5
\* longest line over LongChars handed to Handle (SpecBuf)
LongN == 6
\* number of values of millis_t: millis() counts modulo ClockN (SpecTimer)
ClockN == 8
\* longest interval_ms, and remaining_ms, an IntervalTimer is constructed with (SpecTimer)
IntervalN == 3

(***************************************************************************)
(* Characters.                                                             *)
(***************************************************************************)
NL == 10
CR == 13
Comma == 44
Equals == 61
Underscore == 95
\* value of a buf_ element that was never written, or was written before the last Reset
Uninit == -1

\* the bytes the serial port delivers in Spec:
\* '5' 'a' '_' ',' '='   ' ' TAB   LF CR   0x01
StreamBytes == {53, 97, 95, 44, 61, 32, 9, 10, 13, 1}

\* the characters appended to the CharBuffer of SpecBuf:  '0' '2' '5' 'a' '_' ','
BufChars == {48, 50, 53, 97, 95, 44}
\* the characters Handle calls MatchAndConsume with:  ',' '='
MatchChars == {Comma, Equals}
\* the characters of the lines of numbers of SpecBuf:  '0' '1' '2' '5' '6' ','
LineChars == {48, 49, 50, 53, 54, 44}
\* the characters of its longer lines, of names and numbers:  '2' '5' '6' 'a' '='
LongChars == {50, 53, 54, 97, 61}

\* no IntervalTimer is constructed (Spec, SpecBuf)
NoTimer == last_time = 0 /\ remaining = 0 /\ interval = 0 /\ g_left = 0

\* <ctype.h>, "C" locale
isdigit(ch) == ch \in 48..57
islower(ch) == ch \in 97..122
isblank(ch) == ch \in {9, 32}
isprint(ch) == ch \in 32..126

(***************************************************************************)
(* CharBuffer                                                              *)
(***************************************************************************)
NewBuf(n) == [i \in 0..(n - 1) |-> Uninit]

\* the CharBuffer object of the current state
Buffer == [buf_ |-> buf, write_cursor_ |-> write_cursor, read_cursor_ |-> read_cursor]

\* mutant: `write_cursor_ = read_cursor_; read_cursor_ = 0;`
Reset_WriteFromRead(b) ==
  [buf_ |-> [i \in DOMAIN b.buf_ |-> IF i < b.read_cursor_ THEN b.buf_[i] ELSE Uninit],
   write_cursor_ |-> b.read_cursor_, read_cursor_ |-> 0]

\* Reset(): both cursors to 0.  The elements of buf_ are left as they are by the
\* code; no method reads buf_ at or beyond write_cursor_ (WriteBuffer writes
\* write_cursor_ bytes, Peek and Next are called behind !Empty()), so the model
\* records them as Uninit again.
Reset(b) ==
  [buf_ |-> [i \in DOMAIN b.buf_ |-> Uninit], write_cursor_ |-> 0, read_cursor_ |-> 0]

\* mutant: a full buffer drops the character and still reports room
CharBufferAppend_AlwaysTrue(b, ch) ==
  IF b.write_cursor_ < kBufferSize
    THEN [ok |-> TRUE,
          b  |-> [b EXCEPT !.buf_[b.write_cursor_] = ch,
                           !.write_cursor_ = (b.write_cursor_ + 1) % 256]]
    ELSE [ok |-> TRUE, b |-> b]

\* mutant: the test for room is off by one
CharBufferAppend_OffByOne(b, ch) ==
  IF b.write_cursor_ <= kBufferSize
    THEN [ok |-> TRUE,
          b  |-> [b EXCEPT !.buf_ = [i \in DOMAIN b.buf_ |->
                                       IF i = b.write_cursor_ THEN ch ELSE b.buf_[i]],
                           !.write_cursor_ = (b.write_cursor_ + 1) % 256]]
    ELSE [ok |-> FALSE, b |-> b]

\* mutant: a full buffer overwrites its last character
CharBufferAppend_OverwritesLast(b, ch) ==
  IF b.write_cursor_ < kBufferSize
    THEN [ok |-> TRUE,
          b  |-> [b EXCEPT !.buf_[b.write_cursor_] = ch,
                           !.write_cursor_ = (b.write_cursor_ + 1) % 256]]
    ELSE [ok |-> FALSE, b |-> [b EXCEPT !.buf_[kBufferSize - 1] = ch]]

\* Append(c): [ok, b]  (Append is the operator of Sequences)
CharBufferAppend(b, ch) ==
  IF b.write_cursor_ < kBufferSize
    THEN [ok |-> TRUE,
          b  |-> [b EXCEPT !.buf_[b.write_cursor_] = ch,
                           !.write_cursor_ = (b.write_cursor_ + 1) % 256]]
    ELSE [ok |-> FALSE, b |-> b]

Empty(b) == b.read_cursor_ >= b.write_cursor_

\* Peek(): buf_[read_cursor_]
Peek(b) == b.buf_[b.read_cursor_]

\* Next(): buf_[read_cursor_++], as [ch, b]
Next(b) ==
  [ch |-> b.buf_[b.read_cursor_],
   b  |-> [b EXCEPT !.read_cursor_ = (b.read_cursor_ + 1) % 256]]

\* the loop of ParseUInt8 with its locals v (uint16_t) and len (uint8_t)
RECURSIVE ParseUInt8Loop(_, _, _)
ParseUInt8Loop(b, v, len) ==
  IF ~Empty(b) /\ isdigit(Peek(b))
    THEN LET n    == Next(b)
             v2   == (v * 10 + n.ch - 48) % 65536
             len2 == (len + 1) % 256
         IN IF len2 > 3
              THEN [ok |-> FALSE, output |-> Uninit, b |-> n.b]
              ELSE ParseUInt8Loop(n.b, v2, len2)
    ELSE IF len = 0 \/ v > 255
           THEN [ok |-> FALSE, output |-> Uninit, b |-> b]
           ELSE [ok |-> TRUE, output |-> v % 256, b |-> b]

\* mutant: the value is accumulated in a uint8_t, so that v > 255 never holds
RECURSIVE ParseUInt8Loop_Narrow(_, _, _)
ParseUInt8Loop_Narrow(b, v, len) ==
  IF ~Empty(b) /\ isdigit(Peek(b))
    THEN LET n    == Next(b)
             v2   == (v * 10 + n.ch - 48) % 256
             len2 == (len + 1) % 256
         IN IF len2 > 3
              THEN [ok |-> FALSE, output |-> Uninit, b |-> n.b]
              ELSE ParseUInt8Loop_Narrow(n.b, v2, len2)
    ELSE IF len = 0 \/ v > 255
           THEN [ok |-> FALSE, output |-> Uninit, b |-> b]
           ELSE [ok |-> TRUE, output |-> v % 256, b |-> b]

ParseUInt8_Narrow(b) == ParseUInt8Loop_Narrow(b, 0, 0)

\* mutant: the whole run of digits is consumed before the length is tested
RECURSIVE ParseUInt8Loop_Maximal(_, _, _)
ParseUInt8Loop_Maximal(b, v, len) ==
  IF ~Empty(b) /\ isdigit(Peek(b))
    THEN LET n == Next(b)
         IN ParseUInt8Loop_Maximal(n.b, (v * 10 + n.ch - 48) % 65536,
                                   IF len > 3 THEN len ELSE len + 1)
    ELSE IF len = 0 \/ len > 3 \/ v > 255
           THEN [ok |-> FALSE, output |-> Uninit, b |-> b]
           ELSE [ok |-> TRUE, output |-> v % 256, b |-> b]

ParseUInt8_Maximal(b) == ParseUInt8Loop_Maximal(b, 0, 0)

\* ParseUInt8(&output): [ok, output, b]; output is Uninit when nothing is stored to it
ParseUInt8(b) == ParseUInt8Loop(b, 0, 0)

\* the loop of ParseName with its local len (uint8_t)
RECURSIVE ParseNameLoop(_, _)
ParseNameLoop(b, len) ==
  IF ~Empty(b)
    THEN LET ch == Peek(b)
         IN IF islower(ch) \/ isdigit(ch) \/ ch = Underscore
              THEN ParseNameLoop(Next(b).b, (len + 1) % 256)
              ELSE [b |-> b, len |-> len]
    ELSE [b |-> b, len |-> len]

\* mutant: the pointer is taken after the first character has been consumed
ParseName_StartAfterNext(b) ==
  IF Empty(b) \/ ~islower(Peek(b))
    THEN [ok |-> FALSE, name |-> Uninit, name_len |-> 0, b |-> b]
    ELSE LET l == ParseNameLoop(Next(b).b, 1)
         IN [ok |-> TRUE, name |-> Next(b).b.read_cursor_, name_len |-> l.len, b |-> l.b]

\* ParseName(&name, &name_len): [ok, name, name_len, b]; name is the offset of
\* the pointer into buf_
ParseName(b) ==
  IF Empty(b) \/ ~islower(Peek(b))
    THEN [ok |-> FALSE, name |-> Uninit, name_len |-> 0, b |-> b]
    ELSE LET l == ParseNameLoop(Next(b).b, 1)
         IN [ok |-> TRUE, name |-> b.read_cursor_, name_len |-> l.len, b |-> l.b]

\* mutant: the character is matched with Peek() and not consumed
MatchAndConsume_NotConsumed(b, ch) ==
  IF Empty(b) \/ Peek(b) # ch
    THEN [ok |-> FALSE, b |-> b]
    ELSE [ok |-> TRUE, b |-> b]

\* mutant: a character that differs is consumed all the same
MatchAndConsume_ConsumesMismatch(b, ch) ==
  IF Empty(b)
    THEN [ok |-> FALSE, b |-> b]
    ELSE [ok |-> Peek(b) = ch, b |-> Next(b).b]

\* MatchAndConsume(c): [ok, b]
MatchAndConsume(b, ch) ==
  IF Empty(b) \/ Peek(b) # ch
    THEN [ok |-> FALSE, b |-> b]
    ELSE [ok |-> TRUE, b |-> Next(b).b]

\* mutant: only the part of the line that was parsed is written
WriteBuffer_ReadCursor(b) == [i \in 1..b.read_cursor_ |-> b.buf_[i - 1]]

\* WriteBuffer(): the write_cursor_ bytes Serial.write(buf_, write_cursor_) sends
WriteBuffer(b) == [i \in 1..b.write_cursor_ |-> b.buf_[i - 1]]

(***************************************************************************)
(* SerialInputHandler                                                      *)
(***************************************************************************)
IsNewLine(ch) == ch = NL \/ ch = CR

\* the calls a pass of Handle's loop body makes
NumNumCall(pin_num, value) ==
  [fn |-> "num_num_fn", args |-> <<pin_num, value>>, text |-> <<>>]
NameNumCall(name, name_len, value) ==
  [fn |-> "name_num_fn", args |-> <<name, name_len, value>>, text |-> <<>>]
\* LineNotMatched(reason): prints the reason and the buffer
LineNotMatched(b, reason) ==
  [fn |-> "LineNotMatched", args |-> <<reason>>, text |-> WriteBuffer(b)]

\* Handle, lines 20-29: the line began with a number
HandleNumCommaNum(b, pin_num) ==
  LET m == MatchAndConsume(b, Comma)
      p == ParseUInt8(m.b)
  IN IF m.ok /\ p.ok /\ Empty(p.b)
       THEN [calls |-> <<NumNumCall(pin_num, p.output)>>, b |-> p.b]
       ELSE [calls |-> <<LineNotMatched(IF ~m.ok THEN m.b ELSE p.b, 1)>>,
             b |-> IF ~m.ok THEN m.b ELSE p.b]

\* Handle, lines 33-43: the line began with a name
HandleNameEqNum(b, name, name_len) ==
  LET m == MatchAndConsume(b, Equals)
      p == ParseUInt8(m.b)
  IN IF m.ok /\ p.ok /\ Empty(p.b)
       THEN [calls |-> <<NameNumCall(name, name_len, p.output)>>, b |-> p.b]
       ELSE [calls |-> <<LineNotMatched(IF ~m.ok THEN m.b ELSE p.b, 2)>>,
             b |-> IF ~m.ok THEN m.b ELSE p.b]

\* Handle, lines 20-47: the body of the loop up to the call it makes, before
\* the Reset: [calls, b]
HandleLine(b) ==
  LET n == ParseUInt8(b)
  IN IF n.ok
       THEN HandleNumCommaNum(n.b, n.output)
       ELSE LET id == ParseName(n.b)
            IN IF id.ok
                 THEN HandleNameEqNum(id.b, id.name, id.name_len)
                 ELSE [calls |-> <<LineNotMatched(id.b, 0)>>, b |-> id.b]

\* the SerialInputHandler object of the current state
Handler ==
  [input_buffer_ |-> Buffer, has_line_ |-> has_line, wait_for_new_line_ |-> wait_for_new_line]

\* mutant: an unacceptable byte is ignored wherever it arrives
AccumulateByte_BadByteIgnored(h, ch) ==
  LET b == h.input_buffer_
  IN IF h.wait_for_new_line_
       THEN IF IsNewLine(ch)
              THEN [h |-> [h EXCEPT !.wait_for_new_line_ = FALSE, !.input_buffer_ = Reset(b)],
                    returns |-> FALSE]
              ELSE [h |-> h, returns |-> FALSE]
     ELSE IF IsNewLine(ch)
       THEN IF ~Empty(b)
              THEN [h |-> [h EXCEPT !.has_line_ = TRUE], returns |-> TRUE]
              ELSE [h |-> h, returns |-> FALSE]
     ELSE IF isblank(ch)
       THEN [h |-> h, returns |-> FALSE]
     ELSE IF isprint(ch)
       THEN LET a == CharBufferAppend(b, ch)
            IN [h |-> [h EXCEPT !.input_buffer_ = a.b,
                                !.wait_for_new_line_ = IF a.ok THEN @ ELSE TRUE],
                returns |-> FALSE]
     ELSE [h |-> h, returns |-> FALSE]

\* mutant: the line is marked ready but the loop goes on reading
AccumulateByte_NoReturn(h, ch) ==
  LET b == h.input_buffer_
  IN IF h.wait_for_new_line_
       THEN IF IsNewLine(ch)
              THEN [h |-> [h EXCEPT !.wait_for_new_line_ = FALSE, !.input_buffer_ = Reset(b)],
                    returns |-> FALSE]
              ELSE [h |-> h, returns |-> FALSE]
     ELSE IF IsNewLine(ch)
       THEN IF ~Empty(b)
              THEN [h |-> [h EXCEPT !.has_line_ = TRUE], returns |-> FALSE]
              ELSE [h |-> h, returns |-> FALSE]
     ELSE IF isblank(ch)
       THEN [h |-> h, returns |-> FALSE]
     ELSE IF isprint(ch)
       THEN LET a == CharBufferAppend(b, ch)
            IN [h |-> [h EXCEPT !.input_buffer_ = a.b,
                                !.wait_for_new_line_ = IF a.ok THEN @ ELSE TRUE],
                returns |-> FALSE]
     ELSE IF Empty(b)
       THEN [h |-> h, returns |-> FALSE]
       ELSE [h |-> [h EXCEPT !.wait_for_new_line_ = TRUE], returns |-> FALSE]

\* mutant: the test for blanks is missing, and isprint(' ') holds
AccumulateByte_BlankStored(h, ch) ==
  LET b == h.input_buffer_
  IN IF h.wait_for_new_line_
       THEN IF IsNewLine(ch)
              THEN [h |-> [h EXCEPT !.wait_for_new_line_ = FALSE, !.input_buffer_ = Reset(b)],
                    returns |-> FALSE]
              ELSE [h |-> h, returns |-> FALSE]
     ELSE IF IsNewLine(ch)
       THEN IF ~Empty(b)
              THEN [h |-> [h EXCEPT !.has_line_ = TRUE], returns |-> TRUE]
              ELSE [h |-> h, returns |-> FALSE]
     ELSE IF isprint(ch)
       THEN LET a == CharBufferAppend(b, ch)
            IN [h |-> [h EXCEPT !.input_buffer_ = a.b,
                                !.wait_for_new_line_ = IF a.ok THEN @ ELSE TRUE],
                returns |-> FALSE]
     ELSE IF Empty(b)
       THEN [h |-> h, returns |-> FALSE]
       ELSE [h |-> [h EXCEPT !.wait_for_new_line_ = TRUE], returns |-> FALSE]

\* mutant: the terminator is tested before wait_for_new_line_
AccumulateByte_TerminatorFirst(h, ch) ==
  LET b == h.input_buffer_
  IN IF IsNewLine(ch)
       THEN IF ~Empty(b)
              THEN [h |-> [h EXCEPT !.has_line_ = TRUE], returns |-> TRUE]
              ELSE [h |-> [h EXCEPT !.wait_for_new_line_ = FALSE], returns |-> FALSE]
     ELSE IF h.wait_for_new_line_ \/ isblank(ch)
       THEN [h |-> h, returns |-> FALSE]
     ELSE IF isprint(ch)
       THEN LET a == CharBufferAppend(b, ch)
            IN [h |-> [h EXCEPT !.input_buffer_ = a.b,
                                !.wait_for_new_line_ = IF a.ok THEN @ ELSE TRUE],
                returns |-> FALSE]
     ELSE IF Empty(b)
       THEN [h |-> h, returns |-> FALSE]
       ELSE [h |-> [h EXCEPT !.wait_for_new_line_ = TRUE], returns |-> FALSE]

\* mutant: a character that finds the buffer full makes the line ready
AccumulateByte_FullDispatches(h, ch) ==
  LET b == h.input_buffer_
  IN IF h.wait_for_new_line_
       THEN IF IsNewLine(ch)
              THEN [h |-> [h EXCEPT !.wait_for_new_line_ = FALSE, !.input_buffer_ = Reset(b)],
                    returns |-> FALSE]
              ELSE [h |-> h, returns |-> FALSE]
     ELSE IF IsNewLine(ch)
       THEN IF ~Empty(b)
              THEN [h |-> [h EXCEPT !.has_line_ = TRUE], returns |-> TRUE]
              ELSE [h |-> h, returns |-> FALSE]
     ELSE IF isblank(ch)
       THEN [h |-> h, returns |-> FALSE]
     ELSE IF isprint(ch)
       THEN LET a == CharBufferAppend(b, ch)
            IN [h |-> [h EXCEPT !.input_buffer_ = a.b,
                                !.has_line_ = IF a.ok THEN @ ELSE TRUE],
                returns |-> ~a.ok]
     ELSE IF Empty(b)
       THEN [h |-> h, returns |-> FALSE]
       ELSE [h |-> [h EXCEPT !.wait_for_new_line_ = TRUE], returns |-> FALSE]

\* mutant: a terminator makes a line ready whether or not anything is stored
AccumulateByte_EmptyLineReady(h, ch) ==
  LET b == h.input_buffer_
  IN IF h.wait_for_new_line_
       THEN IF IsNewLine(ch)
              THEN [h |-> [h EXCEPT !.wait_for_new_line_ = FALSE, !.input_buffer_ = Reset(b)],
                    returns |-> FALSE]
              ELSE [h |-> h, returns |-> FALSE]
     ELSE IF IsNewLine(ch)
       THEN [h |-> [h EXCEPT !.has_line_ = TRUE], returns |-> TRUE]
     ELSE IF isblank(ch)
       THEN [h |-> h, returns |-> FALSE]
     ELSE IF isprint(ch)
       THEN LET a == CharBufferAppend(b, ch)
            IN [h |-> [h EXCEPT !.input_buffer_ = a.b,
                                !.wait_for_new_line_ = IF a.ok THEN @ ELSE TRUE],
                returns |-> FALSE]
     ELSE IF Empty(b)
       THEN [h |-> h, returns |-> FALSE]
       ELSE [h |-> [h EXCEPT !.wait_for_new_line_ = TRUE], returns |-> FALSE]

\* mutant: the test isprint(c) is missing
AccumulateByte_AnyByteStored(h, ch) ==
  LET b == h.input_buffer_
  IN IF h.wait_for_new_line_
       THEN IF IsNewLine(ch)
              THEN [h |-> [h EXCEPT !.wait_for_new_line_ = FALSE, !.input_buffer_ = Reset(b)],
                    returns |-> FALSE]
              ELSE [h |-> h, returns |-> FALSE]
     ELSE IF IsNewLine(ch)
       THEN IF ~Empty(b)
              THEN [h |-> [h EXCEPT !.has_line_ = TRUE], returns |-> TRUE]
              ELSE [h |-> h, returns |-> FALSE]
     ELSE IF isblank(ch)
       THEN [h |-> h, returns |-> FALSE]
     ELSE LET a == CharBufferAppend(b, ch)
          IN [h |-> [h EXCEPT !.input_buffer_ = a.b,
                              !.wait_for_new_line_ = IF a.ok THEN @ ELSE TRUE],
              returns |-> FALSE]

\* mutant: the terminator that ends the wait does not Reset the buffer
AccumulateByte_ResyncNoReset(h, ch) ==
  LET b == h.input_buffer_
  IN IF h.wait_for_new_line_
       THEN IF IsNewLine(ch)
              THEN [h |-> [h EXCEPT !.wait_for_new_line_ = FALSE], returns |-> FALSE]
              ELSE [h |-> h, returns |-> FALSE]
     ELSE IF IsNewLine(ch)
       THEN IF ~Empty(b)
              THEN [h |-> [h EXCEPT !.has_line_ = TRUE], returns |-> TRUE]
              ELSE [h |-> h, returns |-> FALSE]
     ELSE IF isblank(ch)
       THEN [h |-> h, returns |-> FALSE]
     ELSE IF isprint(ch)
       THEN LET a == CharBufferAppend(b, ch)
            IN [h |-> [h EXCEPT !.input_buffer_ = a.b,
                                !.wait_for_new_line_ = IF a.ok THEN @ ELSE TRUE],
                returns |-> FALSE]
     ELSE IF Empty(b)
       THEN [h |-> h, returns |-> FALSE]
       ELSE [h |-> [h EXCEPT !.wait_for_new_line_ = TRUE], returns |-> FALSE]

\* mutant: a blank that finds the buffer full counts as one character too many
AccumulateByte_BlankOverflows(h, ch) ==
  LET b == h.input_buffer_
  IN IF h.wait_for_new_line_
       THEN IF IsNewLine(ch)
              THEN [h |-> [h EXCEPT !.wait_for_new_line_ = FALSE, !.input_buffer_ = Reset(b)],
                    returns |-> FALSE]
              ELSE [h |-> h, returns |-> FALSE]
     ELSE IF IsNewLine(ch)
       THEN IF ~Empty(b)
              THEN [h |-> [h EXCEPT !.has_line_ = TRUE], returns |-> TRUE]
              ELSE [h |-> h, returns |-> FALSE]
     ELSE IF isblank(ch)
       THEN [h |-> [h EXCEPT !.wait_for_new_line_ = (b.write_cursor_ >= kBufferSize)],
             returns |-> FALSE]
     ELSE IF isprint(ch)
       THEN LET a == CharBufferAppend(b, ch)
            IN [h |-> [h EXCEPT !.input_buffer_ = a.b,
                                !.wait_for_new_line_ = IF a.ok THEN @ ELSE TRUE],
                returns |-> FALSE]
     ELSE IF Empty(b)
       THEN [h |-> h, returns |-> FALSE]
       ELSE [h |-> [h EXCEPT !.wait_for_new_line_ = TRUE], returns |-> FALSE]

\* AccumulateLine, lines 58-84: one pass of the while loop with the byte read,
\* as [h, returns]: the handler it leaves, and whether it is left by `return true`
AccumulateByte(h, ch) ==
  LET b == h.input_buffer_
  IN IF h.wait_for_new_line_
       THEN IF IsNewLine(ch)
              THEN [h |-> [h EXCEPT !.wait_for_new_line_ = FALSE, !.input_buffer_ = Reset(b)],
                    returns |-> FALSE]
              ELSE [h |-> h, returns |-> FALSE]
     ELSE IF IsNewLine(ch)
       THEN IF ~Empty(b)
              THEN [h |-> [h EXCEPT !.has_line_ = TRUE], returns |-> TRUE]
              ELSE [h |-> h, returns |-> FALSE]
     ELSE IF isblank(ch)
       THEN [h |-> h, returns |-> FALSE]
     ELSE IF isprint(ch)
       THEN LET a == CharBufferAppend(b, ch)
            IN [h |-> [h EXCEPT !.input_buffer_ = a.b,
                                !.wait_for_new_line_ = IF a.ok THEN @ ELSE TRUE],
                returns |-> FALSE]
     ELSE IF Empty(b)
       THEN [h |-> h, returns |-> FALSE]
       ELSE [h |-> [h EXCEPT !.wait_for_new_line_ = TRUE], returns |-> FALSE]

(***************************************************************************)
(* History of the byte stream, kept beside the program: what has been read *)
(* of the current line, by the classes of the bytes alone.                 *)
(***************************************************************************)
Stored(ch) == ~IsNewLine(ch) /\ ~isblank(ch) /\ isprint(ch)

\* g_prev is "none" before the first line has ended, then the fn of the call
\* made for the line before, or "over" or "bad" when that line was lost
HistoryRead(ch) ==
  IF IsNewLine(ch)
    THEN IF g_line = <<>>
           THEN UNCHANGED <<g_line, g_status, g_ready, g_prev>>
           ELSE IF g_status = "ok"
                  THEN g_ready' = TRUE /\ UNCHANGED <<g_line, g_status, g_prev>>
                  ELSE /\ g_line' = <<>>
                       /\ g_status' = "ok"
                       /\ g_prev' = g_status
                       /\ UNCHANGED g_ready
  ELSE IF g_status # "ok" \/ isblank(ch)
    THEN UNCHANGED <<g_line, g_status, g_ready, g_prev>>
  ELSE IF isprint(ch)
    THEN IF Len(g_line) < kBufferSize
           THEN g_line' = Append(g_line, ch) /\ UNCHANGED <<g_status, g_ready, g_prev>>
           ELSE g_status' = "over" /\ UNCHANGED <<g_line, g_ready, g_prev>>
    ELSE IF g_line = <<>>
           THEN UNCHANGED <<g_line, g_status, g_ready, g_prev>>
           ELSE g_status' = "bad" /\ UNCHANGED <<g_line, g_ready, g_prev>>

(***************************************************************************)
(* The sketch: loop() calls Handle(); the serial port receives bytes.      *)
(*   pc = "idle"  outside Handle                                           *)
(*   pc = "acc"   in AccumulateLine, at the test of its while loop         *)
(*   pc = "line"  AccumulateLine has returned true (Handle, line 18)       *)
(*   pc = "call"  in the handler or in LineNotMatched, before the Reset    *)
(***************************************************************************)
SetBuffer(b) ==
  /\ buf' = b.buf_
  /\ write_cursor' = b.write_cursor_
  /\ read_cursor' = b.read_cursor_

\* ret before any method is called directly
NoCall == [op |-> "CharBuffer", ok |-> TRUE, val |-> <<>>]

Init ==
  /\ kBufferSize = StreamN
  /\ buf = NewBuf(StreamN)
  /\ write_cursor = 0
  /\ read_cursor = 0
  /\ has_line = FALSE
  /\ wait_for_new_line = FALSE
  /\ pc = "idle"
  /\ avail = 0
  /\ out = <<>>
  /\ ret = NoCall
  /\ g_line = <<>>
  /\ g_status = "ok"
  /\ g_ready = FALSE
  /\ g_done = <<>>
  /\ g_prev = "none"
  /\ g_blank = FALSE
  /\ g_nl = FALSE
  /\ NoTimer

\* a byte arrives at the serial port
Arrive ==
  /\ avail < MaxAvail
  /\ avail' = avail + 1
  /\ UNCHANGED <<timer, kBufferSize, prog, pc, out, ret, g_line, g_status, g_ready, g_done, g_prev, g_blank, g_nl>>

\* loop() calls Handle(), which calls AccumulateLine() (lines 17, 54-56)
Handle_Call ==
  /\ pc = "idle"
  /\ pc' = IF has_line THEN "line" ELSE "acc"
  /\ UNCHANGED <<timer, kBufferSize, prog, avail, out, ret, g_line, g_status, g_ready, g_done, g_prev, g_blank, g_nl>>

\* AccumulateLine reads a byte (lines 57-85)
AccumulateLine_Read(ch) ==
  /\ pc = "acc"
  /\ avail > 0
  /\ avail' = avail - 1
  /\ LET a == AccumulateByte(Handler, ch)
     IN /\ SetBuffer(a.h.input_buffer_)
        /\ has_line' = a.h.has_line_
        /\ wait_for_new_line' = a.h.wait_for_new_line_
        /\ pc' = IF a.returns THEN "line" ELSE "acc"
  /\ out' = <<>>
  /\ g_done' = <<>>
  /\ HistoryRead(ch)
  /\ g_blank' = IF isblank(ch) /\ g_line # <<>> /\ g_status = "ok" THEN TRUE
                ELSE IF g_line' = <<>> THEN FALSE ELSE g_blank
  /\ g_nl' = (IsNewLine(ch) /\ g_line = <<>> /\ g_status = "ok")
  /\ UNCHANGED <<timer, kBufferSize, ret>>

\* mutant: what is stored of a line is dropped when AccumulateLine returns false
AccumulateLine_Return_Discards ==
  /\ pc = "acc"
  /\ avail = 0
  /\ pc' = "idle"
  /\ out' = <<>>
  /\ g_done' = <<>>
  /\ SetBuffer(Reset(Buffer))
  /\ UNCHANGED <<timer, kBufferSize, has_line, wait_for_new_line, avail, ret,
                 g_line, g_status, g_ready, g_prev, g_blank, g_nl>>

\* no byte is available: AccumulateLine returns false and Handle returns (lines 57, 86, 17)
\* (`Serial`, the port's operator bool, is taken to hold, as it does for a HardwareSerial)
AccumulateLine_Return ==
  /\ pc = "acc"
  /\ avail = 0
  /\ pc' = "idle"
  /\ out' = <<>>
  /\ g_done' = <<>>
  /\ UNCHANGED <<timer, kBufferSize, prog, avail, ret, g_line, g_status, g_ready, g_prev, g_blank, g_nl>>

\* Handle parses the line and calls a handler or LineNotMatched (lines 18-28, 33-42, 47)
Handle_Parse ==
  /\ pc = "line"
  /\ LET h == HandleLine(Buffer)
     IN /\ SetBuffer(h.b)
        /\ out' = h.calls
  /\ wait_for_new_line' = FALSE
  /\ has_line' = FALSE
  /\ pc' = "call"
  /\ g_done' = g_line
  /\ g_line' = <<>>
  /\ g_status' = "ok"
  /\ g_ready' = FALSE
  /\ g_blank' = FALSE
  /\ g_nl' = FALSE
  /\ UNCHANGED <<timer, kBufferSize, avail, ret, g_prev>>

\* mutant: Handle returns after the Reset instead of calling AccumulateLine again
Handle_Reset_Return ==
  /\ pc = "call"
  /\ SetBuffer(Reset(Buffer))
  /\ pc' = "idle"
  /\ g_prev' = IF out = <<>> THEN g_prev ELSE out[Len(out)].fn
  /\ UNCHANGED <<timer, kBufferSize, has_line, wait_for_new_line, avail, out, ret,
                 g_line, g_status, g_ready, g_done, g_blank, g_nl>>

\* the call has returned: Reset, and the loop calls AccumulateLine again
\* (lines 30-31, 44-45, 48, 17, 54)
Handle_Reset ==
  /\ pc = "call"
  /\ SetBuffer(Reset(Buffer))
  /\ pc' = IF has_line THEN "line" ELSE "acc"
  /\ g_prev' = IF out = <<>> THEN g_prev ELSE out[Len(out)].fn
  /\ UNCHANGED <<timer, kBufferSize, has_line, wait_for_new_line, avail, out, ret,
                 g_line, g_status, g_ready, g_done, g_blank, g_nl>>

SketchNext ==
  \/ Arrive
  \/ Handle_Call
  \/ \E ch \in StreamBytes : AccumulateLine_Read(ch)
  \/ AccumulateLine_Return
  \/ Handle_Parse
  \/ Handle_Reset

Spec == Init /\ [][SketchNext]_vars

(***************************************************************************)
(* SpecBuf: the methods of CharBuffer called one by one on a buffer of     *)
(* BufN characters (pc = "buf"), and the body of Handle's loop run on each *)
(* line that AccumulateLine can hand to it (pc = "line").                  *)
(***************************************************************************)
Lines ==
  UNION {[1..n -> LineChars] : n \in 1..LineN} \cup
  UNION {[1..n -> LongChars] : n \in 1..LongN}

MaxLineLen == IF LineN > LongN THEN LineN ELSE LongN

\* the state in which AccumulateLine returns true with `line` in the buffer
InitLine ==
  \E line \in Lines :
    /\ kBufferSize = MaxLineLen
    /\ buf = [i \in 0..(MaxLineLen - 1) |-> IF i < Len(line) THEN line[i + 1] ELSE Uninit]
    /\ write_cursor = Len(line)
    /\ read_cursor = 0
    /\ has_line = TRUE
    /\ wait_for_new_line = FALSE
    /\ pc = "line"
    /\ avail = 0
    /\ out = <<>>
    /\ ret = NoCall
    /\ g_line = line
    /\ g_status = "ok"
    /\ g_ready = TRUE
    /\ g_done = <<>>
  /\ g_prev = "none"
  /\ g_blank = FALSE
  /\ g_nl = FALSE
  /\ NoTimer

\* a CharBuffer as constructed
InitBuf ==
  /\ kBufferSize = BufN
  /\ buf = NewBuf(BufN)
  /\ write_cursor = 0
  /\ read_cursor = 0
  /\ has_line = FALSE
  /\ wait_for_new_line = FALSE
  /\ pc = "buf"
  /\ avail = 0
  /\ out = <<>>
  /\ ret = NoCall
  /\ g_line = <<>>
  /\ g_status = "ok"
  /\ g_ready = FALSE
  /\ g_done = <<>>
  /\ g_prev = "none"
  /\ g_blank = FALSE
  /\ g_nl = FALSE
  /\ NoTimer

notbuf == <<timer, kBufferSize, has_line, wait_for_new_line, pc, avail, out,
            g_line, g_status, g_ready, g_done, g_prev, g_blank, g_nl>>

Call_Reset ==
  /\ pc = "buf"
  /\ SetBuffer(Reset(Buffer))
  /\ ret' = [op |-> "Reset", ok |-> TRUE, val |-> <<>>]
  /\ UNCHANGED notbuf

Call_Append(ch) ==
  /\ pc = "buf"
  /\ LET a == CharBufferAppend(Buffer, ch)
     IN /\ SetBuffer(a.b)
        /\ ret' = [op |-> "Append", ok |-> a.ok, val |-> <<>>]
  /\ UNCHANGED notbuf

\* Next() is called on a buffer that is not Empty()
Call_Next ==
  /\ pc = "buf"
  /\ ~Empty(Buffer)
  /\ LET n == Next(Buffer)
     IN /\ SetBuffer(n.b)
        /\ ret' = [op |-> "Next", ok |-> TRUE, val |-> <<n.ch>>]
  /\ UNCHANGED notbuf

Call_ParseUInt8 ==
  /\ pc = "buf"
  /\ LET p == ParseUInt8(Buffer)
     IN /\ SetBuffer(p.b)
        /\ ret' = [op |-> "ParseUInt8", ok |-> p.ok, val |-> <<p.output>>]
  /\ UNCHANGED notbuf

Call_ParseName ==
  /\ pc = "buf"
  /\ LET p == ParseName(Buffer)
     IN /\ SetBuffer(p.b)
        /\ ret' = [op |-> "ParseName", ok |-> p.ok,
                   val |-> <<p.name, p.name_len>>]
  /\ UNCHANGED notbuf

Call_MatchAndConsume(ch) ==
  /\ pc = "buf"
  /\ LET m == MatchAndConsume(Buffer, ch)
     IN /\ SetBuffer(m.b)
        /\ ret' = [op |-> "MatchAndConsume", ok |-> m.ok, val |-> <<>>]
  /\ UNCHANGED notbuf

InitBufSpec == InitLine \/ InitBuf

NextBuf ==
  \/ Handle_Parse
  \/ Handle_Reset
  \/ Call_Reset
  \/ \E ch \in BufChars : Call_Append(ch)
  \/ Call_Next
  \/ Call_ParseUInt8
  \/ Call_ParseName
  \/ \E ch \in MatchChars : Call_MatchAndConsume(ch)

SpecBuf == InitBufSpec /\ [][NextBuf]_vars

(***************************************************************************)
(* IntervalTimer (interval_timer.h, interval_timer.cpp).  A timer object   *)
(* is the record [last_time_, remaining_, interval_]; millis_t is an       *)
(* unsigned type of ClockN values.  SpecTimer: a timer is constructed and  *)
(* then polled or Reset, d milliseconds after its latest call.             *)
(***************************************************************************)
Timer == [last_time_ |-> last_time, remaining_ |-> remaining, interval_ |-> interval]

\* millis() when d milliseconds have passed since it returned last_time_
millis(t, d) == (t.last_time_ + d) % ClockN

\* Reset() at time now
TimerReset(t, now) == [t EXCEPT !.last_time_ = now, !.remaining_ = t.interval_]

\* HasExpired() at time now: [ok, t]
HasExpired(t, now) ==
  LET elapsed  == IF now < t.last_time_ THEN now ELSE (now - t.last_time_) % ClockN
      elapsed2 == (elapsed - t.remaining_) % ClockN
  IN IF t.remaining_ <= elapsed
       THEN [ok |-> TRUE,
             t  |-> [t EXCEPT !.last_time_ = now,
                              !.remaining_ = IF elapsed2 >= t.interval_ THEN 1
                                             ELSE (t.interval_ - elapsed2) % ClockN]]
       ELSE [ok |-> FALSE,
             t  |-> [t EXCEPT !.last_time_ = now,
                              !.remaining_ = (t.remaining_ - elapsed) % ClockN]]

SetTimer(t) ==
  /\ last_time' = t.last_time_
  /\ remaining' = t.remaining_
  /\ interval' = t.interval_

\* history: the time left of the interval after d milliseconds, the interval
\* that follows an expired one beginning where that one ended (and 1 being
\* left when that is over too), as HasExpired has it
TimeLeft(d) ==
  IF d >= g_left
    THEN IF d - g_left >= interval THEN 1 ELSE interval - (d - g_left)
    ELSE g_left - d

nottimer == <<kBufferSize, prog, pc, avail, out, g_line, g_status, g_ready, g_done,
              g_prev, g_blank, g_nl>>

\* IntervalTimer(interval_ms) and IntervalTimer(interval_ms, remaining_ms), at any time
InitTimer ==
  /\ interval \in 1..IntervalN
  /\ remaining \in 0..IntervalN
  /\ last_time \in 0..(ClockN - 1)
  /\ g_left = remaining
  /\ kBufferSize = StreamN
  /\ buf = NewBuf(StreamN)
  /\ write_cursor = 0
  /\ read_cursor = 0
  /\ has_line = FALSE
  /\ wait_for_new_line = FALSE
  /\ pc = "timer"
  /\ avail = 0
  /\ out = <<>>
  /\ ret = NoCall
  /\ g_line = <<>>
  /\ g_status = "ok"
  /\ g_ready = FALSE
  /\ g_done = <<>>
  /\ g_prev = "none"
  /\ g_blank = FALSE
  /\ g_nl = FALSE

\* HasExpired() is called d milliseconds after the latest call
Timer_HasExpired(d) ==
  /\ pc = "timer"
  /\ LET h == HasExpired(Timer, millis(Timer, d))
     IN /\ SetTimer(h.t)
        /\ ret' = [op |-> "HasExpired", ok |-> h.ok, val |-> <<>>]
  /\ g_left' = TimeLeft(d)
  /\ UNCHANGED nottimer

\* Reset() is called d milliseconds after the latest call
Timer_Reset(d) ==
  /\ pc = "timer"
  /\ SetTimer(TimerReset(Timer, millis(Timer, d)))
  /\ ret' = [op |-> "IntervalTimer::Reset", ok |-> TRUE, val |-> <<>>]
  /\ g_left' = interval
  /\ UNCHANGED nottimer

\* the milliseconds between two calls: less than a whole turn of the clock
NextTimer ==
  \/ \E d \in 0..(ClockN - 1) : Timer_HasExpired(d)
  \/ \E d \in 0..(ClockN - 1) : Timer_Reset(d)

SpecTimer == InitTimer /\ [][NextTimer]_vars

(***************************************************************************)
(* The grammar of the command lines as the specification words it, on      *)
(* sequences of characters; the claims compare the program against it.     *)
(*   num-pair = uint8 "," uint8     name-pair = ident "=" uint8            *)
(*   uint8 = 1*3DIGIT, value in [0,255]                                    *)
(*   ident = LCALPHA *(LCALPHA / DIGIT / "_")                              *)
(***************************************************************************)
RECURSIVE DecimalValue(_)
DecimalValue(s) ==
  IF s = <<>> THEN 0
  ELSE DecimalValue(SubSeq(s, 1, Len(s) - 1)) * 10 + (s[Len(s)] - 48)

IsUInt8(s) ==
  /\ Len(s) \in 1..3
  /\ \A i \in 1..Len(s) : isdigit(s[i])
  /\ DecimalValue(s) <= 255

IsIdent(s) ==
  /\ Len(s) >= 1
  /\ islower(s[1])
  /\ \A i \in 1..Len(s) : islower(s[i]) \/ isdigit(s[i]) \/ s[i] = Underscore

\* the position of the separator at which s splits as the grammar asks, if any
SplitsA(s) ==
  {k \in 1..Len(s) : /\ s[k] = Comma
                     /\ IsUInt8(SubSeq(s, 1, k - 1))
                     /\ IsUInt8(SubSeq(s, k + 1, Len(s)))}
SplitsB(s) ==
  {k \in 1..Len(s) : /\ s[k] = Equals
                     /\ IsIdent(SubSeq(s, 1, k - 1))
                     /\ IsUInt8(SubSeq(s, k + 1, Len(s)))}
GrammarA(s) == SplitsA(s) # {}
GrammarB(s) == SplitsB(s) # {}

\* the one call the specification asks for a line of the grammar
ExpectedCall(s) ==
  IF GrammarA(s)
    THEN LET k == CHOOSE k \in SplitsA(s) : TRUE
         IN NumNumCall(DecimalValue(SubSeq(s, 1, k - 1)),
                       DecimalValue(SubSeq(s, k + 1, Len(s))))
    ELSE LET k == CHOOSE k \in SplitsB(s) : TRUE
         IN NameNumCall(0, k - 1, DecimalValue(SubSeq(s, k + 1, Len(s))))

\* the program is between lines: nothing stored, no flag set
Clean ==
  /\ write_cursor = 0
  /\ read_cursor = 0
  /\ ~has_line
  /\ ~wait_for_new_line

\* C1: a line of at most kBufferSize printable non-blank characters that is
\* of Grammar A or Grammar B and is ended by CR or LF is handed to Handle
\* (g_ready), which makes exactly one call, that of the handler of its grammar
\* with the base-10 values (and offset 0 and the length of the identifier),
\* and after the Reset both cursors are 0.
C1_LineDispatched ==
  /\ g_ready => pc = "line" /\ has_line /\ WriteBuffer(Buffer) = g_line
  /\ (g_done # <<>> /\ (GrammarA(g_done) \/ GrammarB(g_done)))
       => /\ out = <<ExpectedCall(g_done)>>
          /\ pc # "call" => write_cursor = 0 /\ read_cursor = 0

\* a line of Grammar B that fills the buffer has been dispatched and the buffer Reset
C1_Witness ==
  /\ pc = "acc"
  /\ GrammarB(g_done)
  /\ Len(g_done) = kBufferSize
  /\ out = <<ExpectedCall(g_done)>>
  /\ write_cursor = 0

\* C2: a handler is called for a dispatched line only if the whole line is
\* 'uint8,uint8' (number handler) or 'ident=uint8' (name handler), and never
\* the name handler for a line whose first character is a digit.
C2_HandlersOnlyForGrammar ==
  g_done # <<>> =>
    \A i \in 1..Len(out) :
      /\ out[i].fn = "num_num_fn" => GrammarA(g_done)
      /\ out[i].fn = "name_num_fn" => GrammarB(g_done) /\ ~isdigit(g_done[1])

\* the bytes of the stream that are neither terminator, blank nor printable
Unacceptable(ch) == ~IsNewLine(ch) /\ ~isblank(ch) /\ ~isprint(ch)

\* no call is made and none is under way
NothingCalled == out = <<>> /\ pc \in {"idle", "acc"} /\ ~has_line

\* while the line is lost, every byte but a terminator leaves the program as
\* it is, and a terminator leaves it Clean, with no call
LostLineStep(status) ==
  g_status = status =>
    \A ch \in StreamBytes :
      AccumulateLine_Read(ch) =>
        IF IsNewLine(ch)
          THEN Clean' /\ pc' = "acc" /\ out' = <<>>
          ELSE UNCHANGED prog /\ pc' = "acc" /\ out' = <<>> /\ g_status' = status

\* the line after a line that ended as `prev` is dispatched as any line is
NextLineDispatched(prev) ==
  g_prev = prev =>
    /\ g_ready => pc = "line" /\ has_line /\ WriteBuffer(Buffer) = g_line
    /\ (g_done # <<>> /\ (GrammarA(g_done) \/ GrammarB(g_done)))
         => out = <<ExpectedCall(g_done)>>

\* C3: once more than kBufferSize printable non-blank characters of a line
\* have been read (g_status = "over"), no call is made for the line, every
\* byte up to and including the next terminator is discarded, and a line of
\* the grammar that follows that terminator is dispatched normally.
C3_OverflowRecovery ==
  /\ [](g_status = "over" => wait_for_new_line /\ NothingCalled)
  /\ [][LostLineStep("over")]_vars
  /\ []NextLineDispatched("over")

\* a line of Grammar A has been dispatched right after a line that was too long
C3_Witness ==
  /\ g_prev = "over"
  /\ GrammarA(g_done)
  /\ out = <<ExpectedCall(g_done)>>

\* an unacceptable byte read between lines changes nothing
IgnoredByteStep ==
  (write_cursor = 0 /\ ~wait_for_new_line) =>
    \A ch \in StreamBytes :
      (Unacceptable(ch) /\ AccumulateLine_Read(ch)) =>
        UNCHANGED <<prog, g_line, g_status, g_prev>> /\ pc' = "acc" /\ out' = <<>>

\* C4: an unacceptable byte read after the line has begun (g_status = "bad")
\* loses the whole line: no call is made for it whatever follows before the
\* next terminator, and a line of the grammar after that terminator is
\* dispatched normally; read while the buffer is empty the byte is ignored.
C4_InvalidByteRecovery ==
  /\ [](g_status = "bad" => wait_for_new_line /\ NothingCalled)
  /\ [][LostLineStep("bad")]_vars
  /\ []NextLineDispatched("bad")
  /\ [][IgnoredByteStep]_vars

\* a line of Grammar B has been dispatched right after a line lost to a bad byte
C4_Witness ==
  /\ g_prev = "bad"
  /\ GrammarB(g_done)
  /\ out = <<ExpectedCall(g_done)>>

\* the current line is given up: it was "over" or "bad" and its terminator is read
LineLost == g_status \in {"over", "bad"} /\ g_status' = "ok"

\* a diagnostic with a reason code and the whole line is among the calls
Reported(calls, line) ==
  \E i \in 1..Len(calls) :
    /\ calls[i].fn = "LineNotMatched"
    /\ calls[i].args[1] \in {0, 1, 2}
    /\ calls[i].text = line

\* C5 as claimed: every line discarded because of Overflow, InvalidByte or
\* GrammarMismatch produces a diagnostic (reason code and raw text).
C5_EveryErrorReported ==
  /\ [][LineLost => Reported(out', g_line)]_vars
  /\ [](g_done # <<>> /\ ~GrammarA(g_done) /\ ~GrammarB(g_done) => Reported(out, g_done))

\* C5 as amended: every line handed to Handle yields exactly one call; when it
\* is not a handler it is a diagnostic with a reason code and the whole stored
\* line; a line lost to Overflow or InvalidByte yields no call at all.
C5_DispatchedLinesReported ==
  /\ [](g_done # <<>> =>
          /\ Len(out) = 1
          /\ out[1].fn \in {"num_num_fn", "name_num_fn"} \/ Reported(out, g_done))
  /\ [][LineLost => out' = <<>> /\ pc' = "acc"]_vars

\* a line was lost without a call, and the line after it has been reported
C5_Witness ==
  /\ g_prev \in {"over", "bad"}
  /\ g_done # <<>>
  /\ Reported(out, g_done)

\* C6: the reason of the diagnostic of a rejected line follows the class of
\* its first character: 1 for a digit, 2 for a lowercase letter, 0 otherwise.
C6_ReasonByFirstCharacter ==
  g_done # <<>> =>
    \A i \in 1..Len(out) :
      out[i].fn = "LineNotMatched" =>
        out[i].args[1] = (IF isdigit(g_done[1]) THEN 1
                          ELSE IF islower(g_done[1]) THEN 2 ELSE 0)

\* C7: lines are dispatched one at a time in arrival order: a line is ready
\* (has_line) exactly when the stream has completed one (g_ready); while it is
\* ready no byte is read; its outcome is exactly one call, made for that line
\* before anything else of the stream is taken.
C7_OneOutcomePerLineInOrder ==
  /\ [](has_line <=> g_ready)
  /\ [](has_line => pc = "line")
  /\ [][g_ready => avail' >= avail]_vars
  /\ [][(out = <<>> /\ out' # <<>>)
          => g_ready /\ g_done' = g_line /\ Len(out') = 1 /\ avail' = avail]_vars
  /\ [](out # <<>> => g_done # <<>>)
  /\ [](pc = "call" => Len(out) = 1)

\* 'a=5' was answered by the name handler and then '5,55' by the number handler
C7_Witness ==
  /\ g_prev = "name_num_fn"
  /\ g_done = <<53, 44, 53, 53>>
  /\ out = <<NumNumCall(5, 55)>>

\* C8: blanks are not part of the line: reading a space or a tab changes
\* nothing of the program and makes no call, wherever it arrives (inside a
\* token, while the line is lost), and no blank is ever stored.
C8_BlanksIgnored ==
  /\ [][\A ch \in StreamBytes :
          (isblank(ch) /\ AccumulateLine_Read(ch)) =>
            UNCHANGED <<prog, g_line, g_status, g_ready, g_prev>>
              /\ pc' = "acc" /\ out' = <<>>]_vars
  /\ [](\A i \in 0..(write_cursor - 1) : ~isblank(buf[i]))
  /\ [](g_ready /\ (GrammarA(g_line) \/ GrammarB(g_line)) => WriteBuffer(Buffer) = g_line)

\* a line of Grammar A with a blank read inside it is ready, stored without the blank
C8_Witness ==
  /\ g_blank
  /\ g_ready
  /\ pc = "line"
  /\ GrammarA(g_line)
  /\ WriteBuffer(Buffer) = g_line

\* the maximal run of digits at the read cursor
DigitRun(b) ==
  LET n == Cardinality({k \in 1..(b.write_cursor_ - b.read_cursor_) :
                          \A j \in 0..(k - 1) : isdigit(b.buf_[b.read_cursor_ + j])})
  IN [i \in 1..n |-> b.buf_[b.read_cursor_ + i - 1]]

\* C9: ParseUInt8 succeeds exactly when the run of digits at the read cursor
\* has 1 to 3 digits and a base-10 value of at most 255, and then returns that
\* value; '255,0' is dispatched, '256,0' and '1000' call no handler.
C9_ParseUInt8 ==
  /\ [][Call_ParseUInt8 =>
          /\ ret'.ok <=> IsUInt8(DigitRun(Buffer))
          /\ ret'.ok => ret'.val = <<DecimalValue(DigitRun(Buffer))>>]_vars
  /\ [](g_done = <<50, 53, 53, 44, 48>> => out = <<NumNumCall(255, 0)>>)
  /\ [](g_done \in {<<50, 53, 54, 44, 48>>, <<49, 48, 48, 48>>}
          => /\ Len(out) = 1
             /\ out[1].fn = "LineNotMatched")

\* ParseUInt8 has returned 255 for the digits '255' at the start of the buffer
C9_Witness ==
  /\ ret.op = "ParseUInt8"
  /\ ret.ok
  /\ ret.val = <<255>>
  /\ read_cursor = 3
  /\ pc = "buf"

\* C10: 0 <= read_cursor <= write_cursor <= kBufferSize in every state.
C10_CursorsInBounds ==
  /\ 0 <= read_cursor
  /\ read_cursor <= write_cursor
  /\ write_cursor <= kBufferSize

\* a line that fills the buffer has been read to its end by Handle
C10_Witness ==
  /\ pc = "call"
  /\ read_cursor = write_cursor
  /\ write_cursor = kBufferSize

\* C11: has_line_ and wait_for_new_line_ are never both true, in any state of
\* the sketch (inside Handle and between its calls).
C11_NotReadyWhileResyncing == ~(has_line /\ wait_for_new_line)

\* a line is ready right after a line that was lost and resynchronised
C11_Witness ==
  /\ has_line
  /\ ~wait_for_new_line
  /\ g_prev \in {"over", "bad"}
  /\ pc = "line"

\* a step of Handle (the serial port's Arrive is the only other step)
HandleStep ==
  \/ \E ch \in StreamBytes : AccumulateLine_Read(ch)
  \/ AccumulateLine_Return
  \/ Handle_Parse
  \/ Handle_Reset

\* what is left of a call of Handle: 4 steps at most for each byte available,
\* and the steps to the return from where the control is
HandleMeasure ==
  4 * avail + (CASE pc = "line" -> 3 [] pc = "call" -> 2 [] pc = "acc" -> 1 [] OTHER -> 0)

\* Handle can go on wherever it is
HandleNotStuck == pc # "idle" => ENABLED HandleStep

\* C12: a call of Handle ends when no further byte arrives: the control is
\* always at a place with a step to take, and every step of Handle but an
\* arrival decreases HandleMeasure, a natural number; Handle returns only when no byte is
\* available, and then no line is ready and every line completed
\* (g_ready) has been dispatched.
C12_NonBlockingPolling ==
  /\ [](pc \in {"idle", "acc", "line", "call"} /\ avail >= 0)
  /\ [](HandleMeasure >= 0)
  /\ [][(pc # "idle" /\ avail' <= avail) => HandleMeasure' < HandleMeasure]_vars
  /\ [][(pc # "idle" /\ pc' = "idle")
          => avail = 0 /\ avail' = 0 /\ ~has_line' /\ ~g_ready' /\ UNCHANGED prog]_vars
  /\ [](pc = "idle" => ~has_line /\ ~g_ready)

\* Handle has returned after a line was answered by the number handler, with
\* nothing read since and nothing available
C12_Witness ==
  /\ pc = "idle"
  /\ avail = 0
  /\ g_prev = "num_num_fn"
  /\ g_line = <<>>
  /\ Clean

\* the step reads a terminator while Accumulating with a non-empty buffer
TerminatorEndsLine ==
  /\ ~wait_for_new_line
  /\ ~has_line
  /\ ~Empty(Buffer)
  /\ \E ch \in {NL, CR} : AccumulateLine_Read(ch)

\* C13: a line becomes ready, and Handle goes on to parse it, only by a step
\* that reads CR or LF while Accumulating with a non-empty buffer; a call
\* (handler or diagnostic) is made only for a ready line; Resyncing ends only
\* by a step that reads CR or LF, so no other byte and no other step (a call of
\* Handle, its return, an arrival) ends it; while the current line has no
\* terminator yet, no call is made.
C13_NoDispatchWithoutTerminator ==
  /\ [][(~has_line /\ has_line') => TerminatorEndsLine]_vars
  /\ [][(pc # "line" /\ pc' = "line") => TerminatorEndsLine]_vars
  /\ [][(out' # <<>> /\ out' # out) => has_line /\ pc = "line" /\ out = <<>>]_vars
  /\ [][(wait_for_new_line /\ ~wait_for_new_line')
          => \E ch \in {NL, CR} : AccumulateLine_Read(ch)]_vars
  /\ [](g_line # <<>> /\ ~g_ready => out = <<>> /\ ~has_line /\ pc \in {"idle", "acc"})

\* Handle has returned and is called again while the handler is Resyncing after
\* a bad byte that followed a full buffer of characters, a byte waiting
C13_Witness ==
  /\ wait_for_new_line
  /\ g_status = "bad"
  /\ write_cursor = kBufferSize
  /\ pc = "acc"
  /\ avail = 1
  /\ out = <<>>

\* C14: Append(c) with write_cursor_ < kBufferSize stores c at write_cursor_,
\* increments write_cursor_ and returns true; with write_cursor_ = kBufferSize
\* it returns false and leaves buf_ and write_cursor_ as they are; read_cursor_
\* is left as it is in both cases, and no other element of buf_ is written.
C14_Append ==
  [][(pc = "buf" /\ ret'.op = "Append") =>
       \A ch \in BufChars :
         Call_Append(ch) =>
           /\ read_cursor' = read_cursor
           /\ write_cursor <= kBufferSize
           /\ IF write_cursor < kBufferSize
                THEN /\ ret'.ok
                     /\ write_cursor' = write_cursor + 1
                     /\ buf'[write_cursor] = ch
                     /\ \A i \in DOMAIN buf \ {write_cursor} : buf'[i] = buf[i]
                ELSE /\ ~ret'.ok
                     /\ write_cursor' = write_cursor
                     /\ buf' = buf]_vars

\* Append has failed on a full buffer of which a part has been read
C14_Witness ==
  /\ pc = "buf"
  /\ ret.op = "Append"
  /\ ~ret.ok
  /\ write_cursor = kBufferSize
  /\ read_cursor \in 1..(kBufferSize - 1)
  /\ \A i \in DOMAIN buf : buf[i] # Uninit

\* C15: Reset is idempotent: in the state a Reset leaves, from whatever state
\* of the buffer, a second Reset changes nothing (as an operator, and as the
\* next call made), Empty() holds, and an Append stores its character at
\* offset 0 and returns true.
C15_ResetIdempotent ==
  /\ [][Call_Reset =>
          /\ Reset(Reset(Buffer)) = Reset(Buffer)
          /\ write_cursor' = 0 /\ read_cursor' = 0
          /\ read_cursor' >= write_cursor'
          /\ ret.op = "Reset" => UNCHANGED <<buf, write_cursor, read_cursor>>]_vars
  /\ [](pc = "buf" /\ ret.op = "Reset" =>
          /\ Empty(Buffer)
          /\ Reset(Buffer) = Buffer
          /\ \A ch \in BufChars :
               LET a == CharBufferAppend(Buffer, ch)
               IN a.ok /\ a.b.buf_[0] = ch /\ a.b.write_cursor_ = 1 /\ a.b.read_cursor_ = 0)
  /\ [][(pc = "buf" /\ ret.op = "Reset" /\ ret'.op = "Append")
          => ret'.ok /\ write_cursor' = 1 /\ buf'[0] # Uninit /\ read_cursor' = 0]_vars

\* Reset has been called on a buffer
C15_Witness ==
  /\ pc = "buf"
  /\ ret.op = "Reset"
  /\ Empty(Buffer)
  /\ write_cursor = 0
  /\ read_cursor = 0

\* the line is made of digits only
AllDigits(s) == \A i \in 1..Len(s) : isdigit(s[i])

\* C16 as claimed: when ParseUInt8 returns, true or false, the buffer is Empty
\* or the next unread character is not a digit: called directly, called by
\* Handle on the line it is handed, and so after Handle has parsed a line of
\* digits only.
C16_ParseUInt8ConsumesMaximalRun ==
  /\ [][Call_ParseUInt8 =>
          read_cursor' >= write_cursor' \/ ~isdigit(buf'[read_cursor'])]_vars
  /\ [](pc = "line" =>
          LET p == ParseUInt8(Buffer) IN Empty(p.b) \/ ~isdigit(Peek(p.b)))
  /\ [](pc = "call" /\ AllDigits(g_done) => Empty(Buffer))

\* where ParseUInt8 called on b stops: behind the run of digits, or behind its
\* fourth digit, and then it has failed
StopsAtFourthDigit(b, p) ==
  LET n == Len(DigitRun(b))
  IN /\ p.b.read_cursor_ = b.read_cursor_ + (IF n > 4 THEN 4 ELSE n)
     /\ p.b.write_cursor_ = b.write_cursor_
     /\ p.b.buf_ = b.buf_
     /\ n > 3 => ~p.ok
     /\ n <= 4 => Empty(p.b) \/ ~isdigit(Peek(p.b))

\* C16 as amended: ParseUInt8 consumes the run of digits at the read cursor up
\* to its fourth digit, at which it returns false at once: a run of at most 4
\* digits is consumed whole, of a longer run 4 digits are consumed and the
\* next unread character is a digit; so Handle leaves the read cursor at 4 in
\* a line of 5 or more digits, which it reports with reason 0.
C16_ParseUInt8StopsAtFourthDigit ==
  /\ [][Call_ParseUInt8 =>
          StopsAtFourthDigit(Buffer, [ok |-> ret'.ok,
                                      b  |-> [buf_ |-> buf', write_cursor_ |-> write_cursor',
                                              read_cursor_ |-> read_cursor']])]_vars
  /\ [](pc = "line" => StopsAtFourthDigit(Buffer, ParseUInt8(Buffer)))
  /\ [](pc = "call" /\ AllDigits(g_done) /\ Len(g_done) > 4
          => /\ read_cursor = 4
             /\ isdigit(Peek(Buffer))
             /\ out = <<LineNotMatched(Buffer, 0)>>)

\* Handle has parsed a line of 5 digits: ParseUInt8 has left the fifth unread
C16_Witness ==
  /\ pc = "call"
  /\ AllDigits(g_done)
  /\ Len(g_done) = 5
  /\ read_cursor = 4
  /\ write_cursor = 5
  /\ isdigit(buf[4])

\* the characters of an identifier after its first
IsNameChar(ch) == islower(ch) \/ isdigit(ch) \/ ch = Underscore

\* the length of the maximal run of such characters at the read cursor
NameRunLen(b) ==
  Cardinality({k \in 1..(b.write_cursor_ - b.read_cursor_) :
                 \A j \in 0..(k - 1) : IsNameChar(b.buf_[b.read_cursor_ + j])})

\* what C17 asks of p, the outcome of ParseName called on b
ParsesName(b, p) ==
  /\ p.ok <=> (~Empty(b) /\ islower(Peek(b)))
  /\ p.b.buf_ = b.buf_
  /\ p.b.write_cursor_ = b.write_cursor_
  /\ IF p.ok
       THEN /\ p.name = b.read_cursor_
            /\ p.name_len >= 1
            /\ p.name_len = NameRunLen(b)
            /\ p.name + p.name_len = p.b.read_cursor_
            /\ p.b.read_cursor_ <= p.b.write_cursor_
            /\ Empty(p.b) \/ ~IsNameChar(Peek(p.b))
       ELSE p.b.read_cursor_ = b.read_cursor_

\* C17: ParseName returns true exactly when the buffer is not Empty and the
\* next character is a lowercase letter; it then consumes the maximal run of
\* lowercase letters, digits and underscores, and hands out the old read
\* cursor as the start and a length of at least 1, with start + length the
\* new read cursor, at most the write cursor; when it returns false both
\* cursors are as they were.  Called directly, and by Handle on a line.
C17_ParseName ==
  /\ [][Call_ParseName =>
          ParsesName(Buffer, [ok |-> ret'.ok, name |-> ret'.val[1], name_len |-> ret'.val[2],
                              b  |-> [buf_ |-> buf', write_cursor_ |-> write_cursor',
                                      read_cursor_ |-> read_cursor']])]_vars
  /\ [](pc = "line" => ParsesName(Buffer, ParseName(Buffer)))

\* ParseName has taken the name 'a_' (or the like) at offset 1, up to a comma
C17_Witness ==
  /\ pc = "buf"
  /\ ret.op = "ParseName"
  /\ ret.ok
  /\ ret.val = <<1, 2>>
  /\ read_cursor = 3
  /\ write_cursor = 4
  /\ buf[3] = Comma

\* C18: MatchAndConsume(c) returns true exactly when the buffer is not Empty
\* and the character at the read cursor is c, and then the read cursor is
\* advanced by one; when it returns false the read cursor is as it was; the
\* write cursor and the stored characters are as they were in both cases.
C18_MatchAndConsume ==
  [][(pc = "buf" /\ ret'.op = "MatchAndConsume") =>
       \A ch \in MatchChars :
         Call_MatchAndConsume(ch) =>
           LET matches == ~Empty(Buffer) /\ Peek(Buffer) = ch
           IN /\ ret'.ok <=> matches
              /\ read_cursor' = (IF matches THEN read_cursor + 1 ELSE read_cursor)
              /\ read_cursor' <= write_cursor
              /\ UNCHANGED <<buf, write_cursor>>]_vars

\* MatchAndConsume(',') has consumed the comma at offset 1, behind a digit
C18_Witness ==
  /\ pc = "buf"
  /\ ret.op = "MatchAndConsume"
  /\ ret.ok
  /\ read_cursor = 2
  /\ write_cursor = 3
  /\ isdigit(buf[0])
  /\ buf[1] = Comma

\* C19: a terminator read while Accumulating with nothing stored changes
\* nothing of the program and makes no call: so for a line that is empty or
\* made of blanks only, and for the second and later terminators of a run of
\* CR and LF (the history has no character of a line: g_line = <<>>), after
\* which the program is Clean as it was.
C19_TerminatorOnEmptyIsNoOp ==
  /\ [][(pc = "acc" /\ avail' < avail /\ ~wait_for_new_line /\ Empty(Buffer)) =>
          \A ch \in {NL, CR} :
            AccumulateLine_Read(ch) =>
              UNCHANGED <<prog, g_line, g_status, g_ready, g_prev>>
                /\ pc' = "acc" /\ out' = <<>>]_vars
  /\ [](g_line = <<>> /\ pc \in {"idle", "acc"} => Clean)
  /\ [](g_nl => Clean /\ out = <<>> /\ pc \in {"idle", "acc"} /\ g_line = <<>>)

\* a terminator has been read with nothing stored, after the line before it
\* had been answered by the number handler (as the LF of a CR LF is)
C19_Witness ==
  /\ g_nl
  /\ g_prev = "num_num_fn"
  /\ pc = "acc"
  /\ Clean
  /\ out = <<>>

\* C20: in every state the characters stored, buf_[0 .. write_cursor_ - 1],
\* are printable, not blank and neither CR nor LF; and while has_line_ holds
\* there is at least one of them and nothing of them has been read.
C20_StoredCharactersAccepted ==
  /\ \A i \in 0..(write_cursor - 1) :
       isprint(buf[i]) /\ ~isblank(buf[i]) /\ ~IsNewLine(buf[i])
  /\ has_line => write_cursor >= 1 /\ read_cursor = 0

\* a line is ready that fills the buffer, read with a blank inside it
C20_Witness ==
  /\ has_line
  /\ g_blank
  /\ write_cursor = kBufferSize
  /\ read_cursor = 0
  /\ WriteBuffer(Buffer) = g_line

\* the buffer in which AccumulateLine has stored `line` and nothing is read
LineBuffer(line) ==
  [buf_ |-> [i \in 0..(kBufferSize - 1) |-> IF i < Len(line) THEN line[i + 1] ELSE Uninit],
   write_cursor_ |-> Len(line), read_cursor_ |-> 0]

\* the state of the handler and its calls are those the bytes read so far
\* determine (the history is kept from the bytes alone), wherever the control is
StateByBytes ==
  /\ pc \in {"idle", "acc"} =>
       /\ WriteBuffer(Buffer) = g_line
       /\ read_cursor = 0
       /\ ~has_line
       /\ wait_for_new_line <=> g_status # "ok"
       /\ ~g_ready
  /\ pc = "line" =>
       /\ WriteBuffer(Buffer) = g_line
       /\ read_cursor = 0
       /\ has_line /\ ~wait_for_new_line
       /\ g_ready /\ g_status = "ok"
  /\ pc = "call" =>
       /\ out = HandleLine(LineBuffer(g_done)).calls
       /\ ~has_line /\ ~wait_for_new_line
       /\ g_line = <<>> /\ g_status = "ok"

\* C21: what Handle does with a stream depends on its bytes only: in every
\* state the buffer, the cursors and the flags are those the bytes read so far
\* determine, and the calls made for a line are those Handle makes on the
\* line; a byte arriving, Handle returning for want of bytes and Handle being
\* called again change nothing of the handler and make no call, so bytes read
\* in one call of Handle and bytes read over several calls leave the same.
C21_ChunkingIndependence ==
  /\ []StateByBytes
  /\ [][(pc = "idle" \/ pc' = "idle" \/ avail' > avail)
          => /\ UNCHANGED <<prog, g_line, g_status, g_ready, g_prev>>
             /\ out' = <<>> \/ out' = out]_vars

\* Handle has returned with the first two characters of a line stored, the
\* line before it answered by the number handler
C21_Witness ==
  /\ pc = "idle"
  /\ g_prev = "num_num_fn"
  /\ Len(g_line) = 2
  /\ g_status = "ok"
  /\ WriteBuffer(Buffer) = g_line
  /\ avail = 1

\* C22: a CR or LF read in any state leaves the handler Clean, at once and
\* with no call when it was Resyncing or nothing was stored, and otherwise
\* once the line it has made ready has been dispatched: the ready line is
\* answered by one call and the Reset behind the call leaves the handler
\* Clean, reading on.
C22_CleanAfterLineBoundary ==
  /\ [][(pc = "acc" /\ avail' < avail) =>
          \A ch \in {NL, CR} :
            AccumulateLine_Read(ch) =>
              IF wait_for_new_line \/ Empty(Buffer)
                THEN Clean' /\ pc' = "acc" /\ out' = <<>>
                ELSE pc' = "line" /\ has_line' /\ out' = <<>> /\ UNCHANGED <<buf, write_cursor, read_cursor, wait_for_new_line>>]_vars
  /\ [][(pc = "line" /\ pc' # "line")
          => pc' = "call" /\ Len(out') = 1 /\ ~has_line' /\ ~wait_for_new_line' /\ avail' = avail]_vars
  /\ [][(pc = "call" /\ pc' # "call") => Clean' /\ pc' = "acc" /\ out' = out]_vars
  /\ [](g_line = <<>> /\ g_status = "ok" /\ pc # "call" => Clean)

\* the terminator of a line that was lost has been read: the handler is Clean,
\* nothing of a next line is stored, no call was made
C22_Witness ==
  /\ g_prev \in {"over", "bad"}
  /\ g_line = <<>>
  /\ Clean
  /\ pc = "acc"
  /\ out = <<>>
  /\ buf = NewBuf(kBufferSize)

\* C23: write_cursor_ counts the printable non-blank characters of the line
\* and nothing else: a line of at most kBufferSize of them is never Resyncing
\* for its length, whatever blanks it has and whatever bytes were ignored
\* before it, and is made ready as the line of those characters alone; the
\* wait begins for the length exactly at the printable non-blank character
\* that finds kBufferSize of them stored, and at no other printable
\* character.  (g_line is the history of the line: blanks, and bytes that are
\* not printable read before its first character, are not in it.)
C23_OnlyStoredCharactersCount ==
  /\ [](/\ pc # "call" => write_cursor = Len(g_line)
        /\ g_status = "ok" /\ pc # "call" => ~wait_for_new_line
        /\ g_status = "over" => wait_for_new_line /\ Len(g_line) = kBufferSize
        /\ g_blank /\ g_ready => pc = "line" /\ has_line /\ WriteBuffer(Buffer) = g_line)
  /\ [][(pc = "acc" /\ avail' < avail /\ ~wait_for_new_line) =>
          /\ wait_for_new_line' =>
               \A ch \in StreamBytes :
                 AccumulateLine_Read(ch) =>
                   IF Stored(ch)
                     THEN write_cursor = kBufferSize /\ g_status' = "over"
                     ELSE Unacceptable(ch) /\ write_cursor > 0 /\ g_status' = "bad"
          /\ write_cursor = kBufferSize =>
               \A ch \in StreamBytes :
                 (Stored(ch) /\ AccumulateLine_Read(ch)) =>
                   /\ wait_for_new_line' /\ g_status' = "over"
                   /\ UNCHANGED <<buf, write_cursor, read_cursor>>]_vars

\* a line of kBufferSize characters of Grammar B, read with a blank inside
\* it, is ready: more than kBufferSize bytes, and no wait
C23_Witness ==
  /\ g_blank
  /\ g_ready
  /\ pc = "line"
  /\ Len(g_line) = kBufferSize
  /\ GrammarB(g_line)
  /\ ~wait_for_new_line
  /\ write_cursor = kBufferSize

\* the step is a poll d milliseconds after the latest call, and the clock
\* has wrapped around in between
PollAfter(d) == Timer_HasExpired(d)
Wrapped(d) == last_time + d >= ClockN

\* C24: HasExpired returns true exactly when the time passed since the latest
\* call is at least the time left of the interval (g_left, kept from the
\* times that really pass), also when millis() has wrapped around in between;
\* and when it returns true the time left of the new interval is in 1..interval_.
C24_HasExpiredIffElapsed ==
  [][\A d \in 0..(ClockN - 1) :
       PollAfter(d) =>
         /\ ret'.ok <=> d >= g_left
         /\ ret'.ok => remaining' \in 1..interval]_vars

\* the same of the polls between which millis() has not wrapped around: there
\* HasExpired is right, and remaining_ is the time really left
HasExpiredUnlessWrapped ==
  [][\A d \in 0..(ClockN - 1) :
       (PollAfter(d) /\ ~Wrapped(d) /\ remaining = g_left) =>
         /\ ret'.ok <=> d >= g_left
         /\ ret'.ok => remaining' \in 1..interval
         /\ remaining' = g_left']_vars

TypeOK ==
  /\ write_cursor \in 0..kBufferSize
  /\ read_cursor \in 0..kBufferSize
  /\ pc \in {"idle", "acc", "line", "call", "buf", "timer"}
====
